---- MODULE Spec2Model ----
(***************************************************************************)
(* ParsedRule of the Shopify swup fragment plugin: construction of a rule  *)
(* from its options and the decision operation matches(route, visit).      *)
(*                                                                         *)
(* Strings are sequences: a selector is a sequence of characters, a URL    *)
(* and a path pattern are sequences of lexical tokens ("/", a segment,     *)
(* "?", a parameter name, "=", a value, "&").                              *)
(***************************************************************************)
EXTENDS Naturals, Sequences, FiniteSets

VARIABLES
    pc,        \* "idle": no call in progress; "returned": matches() has returned
    rule,      \* the ParsedRule object
    doc,       \* the current document: selector -> "missing" | "outside" | "inside"
    route,     \* the route of the last matches() call
    visit,     \* the visit of the last matches() call
    result,    \* the boolean returned by the last matches() call
    diag,      \* the diagnostics the last operation handed to the logger
    hist,      \* history: whether an earlier call for this route matched, and
               \* whether one was rejected since
    opts,      \* the options the constructor was given, where they are kept
    rules,     \* the rule set, in declared order
    resolved   \* what the last resolution of the rule set returned

vars == <<pc, rule, doc, route, visit, result, diag, hist, opts, rules, resolved>>

\* what only construction and rule-set resolution touch
aux == <<opts, rules, resolved>>

(***************************************************************************)
(* Bounds and input sets                                                   *)
(***************************************************************************)
\* most search parameters in one URL
MaxParams == 1

\* <<name, value>> pairs a query string is built from; the value may be empty
ParamPairs == { <<"q", "a">>, <<"q", "">> }

\* pathnames, as token sequences
Pathnames == { <<"/", "search">>, <<"/", "products", "/", "shirt">> }

\* path patterns: the literal '/search' and the wildcard '/products/(.*)'
Paths == { <<"/", "search">>, <<"/", "products", "/", "(.*)">> }

\* values of options.watchSearchParams: undefined, true, or an array of names
WatchUnset == [type |-> "undefined", names |-> <<>>]
WatchAll == [type |-> "true", names |-> <<>>]
WatchList(names) == [type |-> "array", names |-> names]
WatchOptions == { WatchUnset, WatchAll, WatchList(<<"s">>), WatchList(<<"s", "q">>) }

\* visits; the custom predicate accepts "v1" and rejects "v2"
Visits == { "v1", "v2" }
IfOptions == { "undefined", "custom" }

\* values of options.logger: a Logger is attached
LoggerOptions == { TRUE }

\* selectors, as character sequences
SelA == <<"#", "a">>
SelB == <<"#", "b">>
DocSelectors == { SelA, SelB }

\* a value of options.containers: an array of selectors, or anything else
Array(items) == [isArray |-> TRUE, items |-> items]
NotAnArray == [isArray |-> FALSE, items |-> <<>>]

\* values of options.containers
RawContainers ==
    { NotAnArray,
      Array(<<>>),
      Array(<< <<".", "a">>, <<"#", "c", " ", "#", "d">> >>),
      Array(<< <<" ", "#", "a">> >>),
      Array(<< SelA, <<"#", "b", " ">>, SelA >>) }

DocStatus == { "missing", "outside", "inside" }
Documents == [ DocSelectors -> DocStatus ]

(***************************************************************************)
(* Sequences                                                               *)
(***************************************************************************)
SeqsUpTo(S, n) == UNION { [1..k -> S] : k \in 0..n }

Contains(s, x) == \E i \in 1..Len(s) : s[i] = x

\* index of the first occurrence of x in s, 0 when there is none
IndexOf(s, x) ==
    IF Contains(s, x)
    THEN CHOOSE i \in 1..Len(s) : s[i] = x /\ \A j \in 1..(i-1) : s[j] # x
    ELSE 0

(***************************************************************************)
(* Selectors (String.prototype.trim, startsWith, match)                    *)
(***************************************************************************)
Whitespace == { " " }

RECURSIVE TrimLeft(_)
TrimLeft(s) ==
    IF s # <<>> /\ Head(s) \in Whitespace THEN TrimLeft(Tail(s)) ELSE s

RECURSIVE TrimRight(_)
TrimRight(s) ==
    IF s # <<>> /\ s[Len(s)] \in Whitespace
    THEN TrimRight(SubSeq(s, 1, Len(s) - 1))
    ELSE s

Trim(s) == TrimRight(TrimLeft(s))

\* the elements of a sequence, first occurrences only, in their order
dedupe(s) ==
    LET keep == { i \in 1..Len(s) : \A j \in 1..(i-1) : s[j] # s[i] }
        RECURSIVE pick(_)
        pick(i) ==
            IF i > Len(s) THEN <<>>
            ELSE (IF i \in keep THEN <<s[i]>> ELSE <<>>) \o pick(i + 1)
    IN  pick(1)

\* a bug: nesting is looked for before the "#"
validateSelector_NestedFirst(selector) ==
    IF \E i \in 1..Len(selector) : selector[i] \in Whitespace \cup {">"}
    THEN "must not be nested"
    ELSE IF ~(selector # <<>> /\ Head(selector) = "#") THEN "must be IDs"
         ELSE "true"

\* true, or the kind of Error it returns
validateSelector(selector) ==
    IF ~(selector # <<>> /\ Head(selector) = "#") THEN "must be IDs"
    ELSE IF \E i \in 1..Len(selector) : selector[i] \in Whitespace \cup {">"}
         THEN "must not be nested"
         ELSE "true"

Diag(level, msg, selector) == [level |-> level, msg |-> msg, selector |-> selector]

\* a bug: a rejected selector is reported and kept
parseContainers_KeepsInvalid(rawContainers) ==
    IF ~rawContainers.isArray \/ rawContainers.items = <<>>
    THEN [containers |-> <<>>,
          diag |-> << Diag("error", "must contain an array of containers", <<>>) >>]
    ELSE LET raw == rawContainers.items
             containers == dedupe([i \in 1..Len(raw) |-> Trim(raw[i])])
             RECURSIVE filter(_)
             filter(i) ==
                 IF i > Len(containers) THEN [containers |-> <<>>, diag |-> <<>>]
                 ELSE LET r == validateSelector(containers[i])
                          rest == filter(i + 1)
                      IN  [containers |-> <<containers[i]>> \o rest.containers,
                           diag |-> (IF r = "true" THEN <<>>
                                     ELSE <<Diag("error", r, containers[i])>>) \o rest.diag]
         IN  filter(1)

\* [containers, diag]: the parsed container list and what the logger was given
parseContainers(rawContainers) ==
    IF ~rawContainers.isArray \/ rawContainers.items = <<>>
    THEN [containers |-> <<>>,
          diag |-> << Diag("error", "must contain an array of containers", <<>>) >>]
    ELSE LET raw == rawContainers.items
             containers == dedupe([i \in 1..Len(raw) |-> Trim(raw[i])])
             RECURSIVE filter(_)
             filter(i) ==
                 IF i > Len(containers) THEN [containers |-> <<>>, diag |-> <<>>]
                 ELSE LET r == validateSelector(containers[i])
                          rest == filter(i + 1)
                      IN  IF r = "true"
                          THEN [containers |-> <<containers[i]>> \o rest.containers,
                                diag |-> rest.diag]
                          ELSE [containers |-> rest.containers,
                                diag |-> <<Diag("error", r, containers[i])>> \o rest.diag]
         IN  filter(1)

(***************************************************************************)
(* URLs (swup's Location.fromUrl) and path patterns (swup's matchPath)     *)
(***************************************************************************)
\* the serialized query of a parameter list, without the leading "?"
RECURSIVE QueryString(_)
QueryString(params) ==
    IF params = <<>> THEN <<>>
    ELSE LET p == Head(params)
             one == <<p[1], "=">> \o (IF p[2] = "" THEN <<>> ELSE <<p[2]>>)
         IN  IF Len(params) = 1 THEN one
             ELSE one \o <<"&">> \o QueryString(Tail(params))

\* URL strings: a pathname, then nothing, a bare "?", or "?" and up to n
\* parameters out of pairs
UrlsOf(pathnames, pairs, n) ==
    { p \o s : p \in pathnames,
               s \in { <<>>, <<"?">> } \cup
                     { <<"?">> \o QueryString(ps) : ps \in SeqsUpTo(pairs, n) \ {<<>>} } }

\* the URL strings a route is built from: up to MaxParams parameters
UrlStrings == UrlsOf(Pathnames, ParamPairs, MaxParams)

Routes == [from : UrlStrings, to : UrlStrings]

\* URLs of one page with a second key and one parameter more: a key can be
\* repeated, two parameters can come in either order
QueryPathnames == { <<"/", "products", "/", "shirt">> }
QueryParamPairs == ParamPairs \cup { <<"s", "a">> }
QueryUrlStrings == UrlsOf(QueryPathnames, QueryParamPairs, MaxParams + 1)
QueryRoutes == [from : QueryUrlStrings, to : QueryUrlStrings]

\* every URL string of the model
AllUrlStrings == UrlStrings \cup QueryUrlStrings

\* URLSearchParams of a query: the <<name, value>> pairs in their order
RECURSIVE ParseQuery(_)
ParseQuery(query) ==
    IF query = <<>> THEN <<>>
    ELSE LET amp == IndexOf(query, "&")
             part == IF amp = 0 THEN query ELSE SubSeq(query, 1, amp - 1)
             rest == IF amp = 0 THEN <<>> ELSE SubSeq(query, amp + 1, Len(query))
             eq == IndexOf(part, "=")
             name == IF eq = 0 THEN part ELSE SubSeq(part, 1, eq - 1)
             value == IF eq = 0 THEN <<>> ELSE SubSeq(part, eq + 1, Len(part))
         IN  (IF part = <<>> THEN <<>> ELSE << <<name, value>> >>) \o ParseQuery(rest)

\* new URL(url, base): pathname, search ("" for an empty query), searchParams,
\* and the url getter of swup's Location (pathname + search)
ParseUrl(url) ==
    LET q == IndexOf(url, "?")
        pathname == IF q = 0 THEN url ELSE SubSeq(url, 1, q - 1)
        query == IF q = 0 THEN <<>> ELSE SubSeq(url, q + 1, Len(url))
        search == IF query = <<>> THEN <<>> ELSE <<"?">> \o query
    IN  [pathname |-> pathname,
         search |-> search,
         searchParams |-> ParseQuery(query),
         url |-> pathname \o search]

\* the Location of every URL string of the model, parsed once
Locations == [url \in AllUrlStrings |-> ParseUrl(url)]

\* Location.fromUrl(url)
LocationFromUrl(url) == Locations[url]

\* URLSearchParams.get(name): the value of the first pair named so, or null
SearchParamsGet(searchParams, name) ==
    LET hits == { i \in 1..Len(searchParams) : searchParams[i][1] = <<name>> }
    IN  IF hits = {} THEN [null |-> TRUE, value |-> <<>>]
        ELSE [null |-> FALSE,
              value |-> searchParams[CHOOSE i \in hits : \A j \in hits : i <= j][2]]

\* path-to-regexp's delimiters: one of them may follow the matched path
Delimiters == { "/", "#", "?" }

\* matchPath(path)(url): the tokens of the pattern against the tokens of the
\* URL, "(.*)" taking any run of tokens, the end taking one optional delimiter
RECURSIVE matchPath(_, _)
matchPath(path, url) ==
    IF path = <<>>
    THEN url = <<>> \/ (Len(url) = 1 /\ url[1] \in Delimiters)
    ELSE IF Head(path) = "(.*)"
         THEN \E k \in 1..(Len(url) + 1) : matchPath(Tail(path), SubSeq(url, k, Len(url)))
         ELSE url # <<>> /\ Head(url) = Head(path) /\ matchPath(Tail(path), Tail(url))

\* the matchers the constructor compiles, one per path pattern
Matchers == [path \in Paths |-> [url \in AllUrlStrings |-> matchPath(path, url)]]

\* a bug: the from matcher is compiled from the to pattern
matchesFrom_CompiledFromTo(r, url) == Matchers[r.to][url]

\* this.matchesFrom(url)
matchesFrom(r, url) == Matchers[r.from][url]

\* a bug: the to matcher is compiled from the from pattern
matchesTo_CompiledFromFrom(r, url) == Matchers[r.from][url]

\* this.matchesTo(url)
matchesTo(r, url) == Matchers[r.to][url]

(***************************************************************************)
(* ParsedRule                                                              *)
(***************************************************************************)
\* options.name: a string, here none; options.scroll and options.focus: here unset
NoName == <<>>
NameOptions == { NoName }
ScrollOptions == { "undefined" }
FocusOptions == { "undefined" }

Options ==
    [from : Paths, to : Paths, containers : RawContainers,
     if : IfOptions, watchSearchParams : WatchOptions, logger : LoggerOptions,
     name : NameOptions, scroll : ScrollOptions, focus : FocusOptions]

\* classify(name): lower case, a run of blanks becoming one "-"
Lower(c) == IF c = "A" THEN "a" ELSE IF c = "B" THEN "b" ELSE c
RECURSIVE classify(_)
classify(text) ==
    IF text = <<>> THEN <<>>
    ELSE IF Head(text) \in Whitespace
         THEN LET rest == classify(TrimLeft(text))
              IN  IF rest = <<>> THEN <<>> ELSE <<"-">> \o rest
         ELSE <<Lower(Head(text))>> \o classify(Tail(text))

\* what the logger is handed: nothing when the rule has no logger
Emit(logger, entries) == IF logger THEN entries ELSE <<>>

\* new ParsedRule(options): [rule, diag]
ParsedRule(options) ==
    LET parsed == parseContainers(options.containers)
    IN  [rule |-> [from |-> options.from,
                   to |-> options.to,
                   containers |-> parsed.containers,
                   if |-> IF options.if = "custom" THEN "custom" ELSE "default",
                   watchSearchParams |-> options.watchSearchParams,
                   logger |-> options.logger,
                   name |-> IF options.name # NoName THEN classify(options.name) ELSE NoName,
                   scroll |-> IF options.scroll # "undefined" THEN options.scroll ELSE "false",
                   focus |-> options.focus],
         diag |-> Emit(options.logger, parsed.diag)]

\* a bug: rule.if is never asked
Predicate_Ignored(r, v) == TRUE

\* this.if(visit): the default predicate accepts every visit, the custom one "v1"
Predicate(r, v) == IF r.if = "custom" THEN v = "v1" ELSE TRUE

\* !this.watchSearchParams: undefined is falsy, true and every array are truthy
WatchFalsy(r) == r.watchSearchParams.type = "undefined"

\* a bug: a list of names is treated like true, every parameter is watched
hasSearchParamsChanged_AnyParam(r, fromUrl, toUrl) ==
    IF WatchFalsy(r) THEN FALSE
    ELSE LET fromLocation == LocationFromUrl(fromUrl)
             toLocation == LocationFromUrl(toUrl)
         IN  IF fromLocation.pathname # toLocation.pathname THEN FALSE
             ELSE fromLocation.search # toLocation.search

\* a bug: only the first name of the list is compared
hasSearchParamsChanged_FirstName(r, fromUrl, toUrl) ==
    IF WatchFalsy(r) THEN FALSE
    ELSE LET fromLocation == LocationFromUrl(fromUrl)
             toLocation == LocationFromUrl(toUrl)
         IN  IF fromLocation.pathname # toLocation.pathname THEN FALSE
             ELSE IF r.watchSearchParams.type = "true"
                  THEN fromLocation.search # toLocation.search
                  ELSE /\ r.watchSearchParams.names # <<>>
                       /\ SearchParamsGet(fromLocation.searchParams, r.watchSearchParams.names[1])
                            # SearchParamsGet(toLocation.searchParams, r.watchSearchParams.names[1])

hasSearchParamsChanged(r, fromUrl, toUrl) ==
    IF WatchFalsy(r) THEN FALSE
    ELSE LET fromLocation == LocationFromUrl(fromUrl)
             toLocation == LocationFromUrl(toUrl)
         IN  IF fromLocation.pathname # toLocation.pathname THEN FALSE
             ELSE IF r.watchSearchParams.type = "true"
                  THEN fromLocation.search # toLocation.search
                  ELSE IF r.watchSearchParams.type = "array"
                       THEN \E i \in 1..Len(r.watchSearchParams.names) :
                               LET param == r.watchSearchParams.names[i]
                                   fromValue == SearchParamsGet(fromLocation.searchParams, param)
                                   toValue == SearchParamsGet(toLocation.searchParams, param)
                               IN  fromValue # toValue
                       ELSE FALSE

\* a bug: the patterns are not checked at all
isSearchParamOnlyChange_NoPatternCheck(r, rt) ==
    IF WatchFalsy(r) THEN FALSE
    ELSE hasSearchParamsChanged(r, rt.from, rt.to)

\* a bug: the patterns are checked by direction, as for a path change
isSearchParamOnlyChange_Directional(r, rt) ==
    IF WatchFalsy(r) THEN FALSE
    ELSE LET fromUrl == LocationFromUrl(rt.from).url
             toUrl == LocationFromUrl(rt.to).url
         IN  IF ~(matchesFrom(r, fromUrl) /\ matchesTo(r, toUrl)) THEN FALSE
             ELSE hasSearchParamsChanged(r, rt.from, rt.to)

isSearchParamOnlyChange(r, rt) ==
    IF WatchFalsy(r) THEN FALSE
    ELSE LET fromUrl == LocationFromUrl(rt.from).url
             toUrl == LocationFromUrl(rt.to).url
             fromMatchesFromPattern == matchesFrom(r, fromUrl)
             fromMatchesToPattern == matchesTo(r, fromUrl)
             toMatchesFromPattern == matchesFrom(r, toUrl)
             toMatchesToPattern == matchesTo(r, toUrl)
             bothUrlsMatchPattern ==
                 /\ (fromMatchesFromPattern \/ fromMatchesToPattern)
                 /\ (toMatchesFromPattern \/ toMatchesToPattern)
         IN  IF ~bothUrlsMatchPattern THEN FALSE
             ELSE hasSearchParamsChanged(r, rt.from, rt.to)

\* document.querySelector(selector) finds an element
querySelector(d, selector) == d[selector] # "missing"

\* queryFragmentElement(selector, swup): the element is a default container of
\* swup or lies in one
queryFragmentElement(d, selector) == d[selector] = "inside"

\* a bug: the element only has to exist
validateFragmentSelectorForMatch_ExistsOnly(d, selector) ==
    IF ~querySelector(d, selector) THEN "doesn't exist" ELSE "true"

\* true, or the kind of Error it returns
validateFragmentSelectorForMatch(d, selector) ==
    IF ~querySelector(d, selector) THEN "doesn't exist"
    ELSE IF ~queryFragmentElement(d, selector) THEN "outside of swup's default containers"
         ELSE "true"

\* the loop over this.containers: [result, diag], stopping at the first Error
\* a bug: checking goes on after a failing selector, each one reported
RECURSIVE validateContainers_ReportsAll(_, _, _)
validateContainers_ReportsAll(r, d, i) ==
    IF i > Len(r.containers) THEN [result |-> TRUE, diag |-> <<>>]
    ELSE LET res == validateFragmentSelectorForMatch(d, r.containers[i])
             rest == validateContainers_ReportsAll(r, d, i + 1)
         IN  IF res # "true"
             THEN [result |-> FALSE,
                   diag |-> <<Diag("error", res, r.containers[i])>> \o rest.diag]
             ELSE rest

\* a bug: without a logger the selectors are not validated
RECURSIVE validateContainers_OnlyWhenLogged(_, _, _)
validateContainers_OnlyWhenLogged(r, d, i) ==
    IF i > Len(r.containers) \/ ~r.logger THEN [result |-> TRUE, diag |-> <<>>]
    ELSE LET res == validateFragmentSelectorForMatch(d, r.containers[i])
         IN  IF res # "true"
             THEN [result |-> FALSE, diag |-> <<Diag("error", res, r.containers[i])>>]
             ELSE validateContainers_OnlyWhenLogged(r, d, i + 1)

RECURSIVE validateContainers(_, _, _)
validateContainers(r, d, i) ==
    IF i > Len(r.containers) THEN [result |-> TRUE, diag |-> <<>>]
    ELSE LET res == validateFragmentSelectorForMatch(d, r.containers[i])
         IN  IF res # "true"
             THEN [result |-> FALSE, diag |-> <<Diag("error", res, r.containers[i])>>]
             ELSE validateContainers(r, d, i + 1)

\* a bug: a change of the search string alone is decided like a path change
matches_NoSearchGate(r, rt, v, d) ==
    IF ~Predicate(r, v) THEN [result |-> FALSE, diag |-> <<>>]
    ELSE IF ~(matchesFrom(r, LocationFromUrl(rt.from).url)
              /\ matchesTo(r, LocationFromUrl(rt.to).url))
         THEN [result |-> FALSE, diag |-> <<>>]
         ELSE validateContainers(r, d, 1)

\* a bug: a path change is let through by the relaxed cross-check as well
matches_CrossCheck(r, rt, v, d) ==
    LET fromUrl == LocationFromUrl(rt.from).url
        toUrl == LocationFromUrl(rt.to).url
        searchBranch ==
            /\ LocationFromUrl(rt.from).pathname = LocationFromUrl(rt.to).pathname
            /\ LocationFromUrl(rt.from).search # LocationFromUrl(rt.to).search
        cross == /\ (matchesFrom(r, fromUrl) \/ matchesTo(r, fromUrl))
                 /\ (matchesFrom(r, toUrl) \/ matchesTo(r, toUrl))
    IN  IF ~Predicate(r, v) THEN [result |-> FALSE, diag |-> <<>>]
        ELSE IF searchBranch /\ ~isSearchParamOnlyChange(r, rt)
             THEN [result |-> FALSE, diag |-> <<>>]
             ELSE IF ~searchBranch /\ ~cross
                  THEN [result |-> FALSE, diag |-> <<>>]
                  ELSE validateContainers(r, d, 1)

\* a bug: search strings that hold the same parameters in another order are
\* taken for equal
matches_OrderInsensitive(r, rt, v, d) ==
    LET fromLocation == LocationFromUrl(rt.from)
        toLocation == LocationFromUrl(rt.to)
        f == fromLocation.searchParams
        t == toLocation.searchParams
        sameParams ==
            /\ Len(f) = Len(t)
            /\ \A i \in 1..Len(f) :
                   Cardinality({ j \in 1..Len(f) : f[j] = f[i] })
                       = Cardinality({ j \in 1..Len(t) : t[j] = f[i] })
        searchBranch ==
            /\ fromLocation.pathname = toLocation.pathname
            /\ fromLocation.search # toLocation.search
            /\ ~sameParams
        selectors == validateContainers(r, d, 1)
    IN  IF ~Predicate(r, v) THEN [result |-> FALSE, diag |-> <<>>]
        ELSE IF searchBranch /\ ~isSearchParamOnlyChange(r, rt)
             THEN [result |-> FALSE, diag |-> <<>>]
             ELSE IF ~searchBranch /\ ~(matchesFrom(r, fromLocation.url) /\ matchesTo(r, toLocation.url))
                  THEN [result |-> FALSE, diag |-> <<>>]
                  ELSE selectors

\* matches(route, visit) in document d: [result, diag]
matches(r, rt, v, d) ==
    IF ~Predicate(r, v)
    THEN [result |-> FALSE,
          diag |-> Emit(r.logger, <<Diag("log", "ignoring due to rule.if", <<>>)>>)]
    ELSE LET fromUrl == LocationFromUrl(rt.from).url
             toUrl == LocationFromUrl(rt.to).url
             matchesSearchParamChange == isSearchParamOnlyChange(r, rt)
             matchesRoute == matchesFrom(r, fromUrl) /\ matchesTo(r, toUrl)
             fromLocation == LocationFromUrl(rt.from)
             toLocation == LocationFromUrl(rt.to)
             samePathname == fromLocation.pathname = toLocation.pathname
             differentSearchParams == fromLocation.search # toLocation.search
             searchBranch == samePathname /\ differentSearchParams
             selectors == validateContainers(r, d, 1)
             noted == IF searchBranch
                      THEN <<Diag("log", "matched due to search parameter change", <<>>)>>
                      ELSE <<>>
         IN  IF searchBranch /\ ~matchesSearchParamChange
             THEN [result |-> FALSE, diag |-> <<>>]
             ELSE IF ~searchBranch /\ ~matchesRoute
                  THEN [result |-> FALSE, diag |-> <<>>]
                  ELSE [result |-> selectors.result,
                        diag |-> Emit(r.logger, noted \o selectors.diag)]

(***************************************************************************)
(* The state machine                                                       *)
(***************************************************************************)
NoRoute == [from |-> <<>>, to |-> <<>>]

\* the options once construction is over and nothing refers to them
NoOptions == [from |-> <<>>, to |-> <<>>, containers |-> NotAnArray, if |-> "undefined",
              watchSearchParams |-> WatchUnset, logger |-> FALSE,
              name |-> NoName, scroll |-> "undefined", focus |-> "undefined"]

\* the fields of a ParsedRule before its constructor has run
NoRule == [from |-> <<>>, to |-> <<>>, containers |-> <<>>, if |-> "default",
           watchSearchParams |-> WatchUnset, logger |-> FALSE,
           name |-> NoName, scroll |-> "false", focus |-> "undefined"]

\* resolve() found no rule: swup's default containers are replaced
NoMatch == [type |-> "NoMatch", name |-> NoName, containers |-> <<>>,
            scroll |-> "false", focus |-> "undefined"]

\* a rule has been constructed from some options; some document is loaded
Init ==
    \E options \in Options :
        /\ pc = "idle"
        /\ rule = ParsedRule(options).rule
        /\ diag = ParsedRule(options).diag
        /\ doc \in Documents
        /\ route = NoRoute
        /\ visit = "v1"
        /\ result = FALSE
        /\ hist = "none"
        /\ opts = NoOptions
        /\ rules = <<>>
        /\ resolved = NoMatch

\* stubGlobalDocument: another document is loaded
SetDocument(d) ==
    /\ pc = "idle"
    /\ d # doc
    /\ doc' = d
    /\ UNCHANGED <<pc, rule, route, visit, result, diag, hist>>
    /\ UNCHANGED aux

\* rule.matches(rt, v), the first call for this route
Matches(rt, v) ==
    /\ pc = "idle"
    /\ pc' = "returned"
    /\ route' = rt
    /\ visit' = v
    /\ LET m == matches(rule, rt, v, doc)
       IN  result' = m.result /\ diag' = m.diag
    /\ hist' = "none"
    /\ UNCHANGED <<rule, doc>>
    /\ UNCHANGED aux

\* a bug: a rule that has matched a route does not match it a second time
MatchesAgain_OncePerRoute(v) ==
    /\ pc = "returned"
    /\ visit' = v
    /\ LET m == matches(rule, route, v, doc)
       IN  result' = (m.result /\ ~result) /\ diag' = m.diag
    /\ hist' = IF result THEN "matched"
               ELSE IF hist = "none" THEN "none" ELSE "matched, then rejected"
    /\ UNCHANGED <<pc, rule, doc, route>>
    /\ UNCHANGED aux

\* rule.matches(route, v) once more, for the route of the call before: hist
\* keeps whether an earlier call matched and whether one was rejected since
MatchesAgain(v) ==
    /\ pc = "returned"
    /\ visit' = v
    /\ LET m == matches(rule, route, v, doc)
       IN  result' = m.result /\ diag' = m.diag
    /\ hist' = IF result THEN "matched"
               ELSE IF hist = "none" THEN "none" ELSE "matched, then rejected"
    /\ UNCHANGED <<pc, rule, doc, route>>
    /\ UNCHANGED aux

\* the caller is done with this route
Return ==
    /\ pc = "returned"
    /\ pc' = "idle"
    /\ route' = NoRoute
    /\ visit' = "v1"
    /\ result' = FALSE
    /\ diag' = <<>>
    /\ hist' = "none"
    /\ UNCHANGED <<rule, doc>>
    /\ UNCHANGED aux

Next ==
    \/ \E d \in Documents : SetDocument(d)
    \/ \E rt \in Routes, v \in Visits : Matches(rt, v)
    \/ \E v \in Visits : MatchesAgain(v)
    \/ Return

Spec == Init /\ [][Next]_vars

(***************************************************************************)
(* Construction: the constructor applied to every container list           *)
(***************************************************************************)
\* most selectors in one options.containers
MaxContainers == 4

\* raw selectors: not an ID, an ID, nested, padded, nested by ">", not an ID and nested
RawSelectors ==
    { <<".", "a">>, <<"#", "b">>, <<"#", "c", " ", "#", "d">>,
      <<" ", "#", "b", " ">>, <<"#", "a", ">", "b">>, <<".", "a", " ", "b">> }

ParseOptions ==
    [from : { <<"/", "search">> }, to : { <<"/", "search">> },
     containers : { NotAnArray } \cup { Array(sel) : sel \in SeqsUpTo(RawSelectors, MaxContainers) },
     if : { "undefined" }, watchSearchParams : { WatchUnset }, logger : BOOLEAN,
     name : NameOptions, scroll : ScrollOptions, focus : FocusOptions]

\* no rule yet: the constructor is about to be called with some options
InitParse ==
    /\ pc = "new"
    /\ opts \in ParseOptions
    /\ rule = NoRule
    /\ diag = <<>>
    /\ doc = [sel \in DocSelectors |-> "missing"]
    /\ route = NoRoute
    /\ visit = "v1"
    /\ result = FALSE
    /\ hist = "none"
    /\ rules = <<>>
    /\ resolved = NoMatch

\* new ParsedRule(opts)
Construct ==
    /\ pc = "new"
    /\ pc' = "idle"
    /\ LET new == ParsedRule(opts)
       IN  rule' = new.rule /\ diag' = new.diag
    /\ UNCHANGED <<doc, route, visit, result, hist, opts, rules, resolved>>

NextParse == Construct

SpecParse == InitParse /\ [][NextParse]_vars

(***************************************************************************)
(* Vocabulary of the properties: the last call, as the caller sees it      *)
(***************************************************************************)
Called == pc = "returned"

FromLocation == LocationFromUrl(route.from)
ToLocation == LocationFromUrl(route.to)

SamePathname == FromLocation.pathname = ToLocation.pathname
DifferentSearch == FromLocation.search # ToLocation.search
SearchOnlyRoute == SamePathname /\ DifferentSearch

\* rule.if accepts the visit: the default predicate does, the custom one "v1" only
PredicateHolds == rule.if = "custom" => visit = "v1"

HasContainers == rule.containers # <<>>

\* a pattern of the rule against a URL of the route, by the compiled matchers
FromPatternOnFrom == Matchers[rule.from][FromLocation.url]
ToPatternOnTo == Matchers[rule.to][ToLocation.url]
FromPatternOnTo == Matchers[rule.from][ToLocation.url]
ToPatternOnFrom == Matchers[rule.to][FromLocation.url]

\* each URL satisfies at least one of the two patterns
CrossCheck ==
    /\ (FromPatternOnFrom \/ ToPatternOnFrom)
    /\ (FromPatternOnTo \/ ToPatternOnTo)

\* every container has an element inside swup's default containers
ContainersPass == \A i \in 1..Len(rule.containers) : doc[rule.containers[i]] = "inside"

\* predicate, from-pattern on from, to-pattern on to, containers
TraditionalMatch == PredicateHolds /\ FromPatternOnFrom /\ ToPatternOnTo /\ ContainersPass

WatchUnsetRule == rule.watchSearchParams.type = "undefined"
WatchAllRule == rule.watchSearchParams.type = "true"
WatchListRule == rule.watchSearchParams.type = "array"
Watched == { rule.watchSearchParams.names[i] : i \in 1..Len(rule.watchSearchParams.names) }

\* the values of every occurrence of a parameter, in their order
RECURSIVE ValuesOf(_, _)
ValuesOf(searchParams, name) ==
    IF searchParams = <<>> THEN <<>>
    ELSE (IF Head(searchParams)[1] = <<name>> THEN <<Head(searchParams)[2]>> ELSE <<>>)
         \o ValuesOf(Tail(searchParams), name)

\* the parameter is present on one side only, or its value differs
ParamDiffers(name) ==
    LET f == ValuesOf(FromLocation.searchParams, name)
        t == ValuesOf(ToLocation.searchParams, name)
    IN  \/ (f = <<>>) # (t = <<>>)
        \/ f # <<>> /\ t # <<>> /\ Head(f) # Head(t)

\* no occurrence of the parameter differs
ParamUntouched(name) ==
    ValuesOf(FromLocation.searchParams, name) = ValuesOf(ToLocation.searchParams, name)

SomeWatchedParamDiffers == \E name \in Watched : ParamDiffers(name)

(***************************************************************************)
(* Properties                                                              *)
(***************************************************************************)

\* C1: with watchSearchParams unset, a route whose from and to have the same
\* pathname and different search strings never matches, whatever the patterns,
\* the predicate and the document are.
C1_UnsetNeverMatchesSearchChange ==
    (Called /\ WatchUnsetRule /\ SearchOnlyRoute) => result = FALSE

\* reached: such a route is rejected although predicate, patterns and containers
\* would all let it through
C1_Witness ==
    /\ Called /\ WatchUnsetRule /\ SearchOnlyRoute
    /\ TraditionalMatch /\ HasContainers
    /\ result = FALSE

\* C2 (as claimed): a rule whose container list is empty after validation
\* never matches.
C2_EmptyContainersNeverMatch ==
    (Called /\ rule.containers = <<>>) => result = FALSE

\* C3 (as claimed): with a list of watched names, predicate true, cross-check
\* satisfied and containers passing, a route with the same pathname matches
\* exactly when a watched parameter differs in value or presence. Stated for
\* the rules that have containers.
C3_SamePathnameMatchesIffWatchedDiffers ==
    ( /\ Called /\ WatchListRule /\ PredicateHolds /\ CrossCheck
      /\ HasContainers /\ ContainersPass /\ SamePathname )
        => (result = SomeWatchedParamDiffers)

\* C3 (amended): the same, for the routes whose search strings differ; a route
\* with the same pathname and the same search string is decided by the patterns.
C3_SearchChangeMatchesIffWatchedDiffers ==
    (Called /\ WatchListRule /\ PredicateHolds /\ CrossCheck /\ ContainersPass /\ SearchOnlyRoute)
        => (result = SomeWatchedParamDiffers)

\* reached: a watched parameter differs, the second name of the list, and the
\* route matches
C3_Witness ==
    /\ Called /\ WatchListRule /\ PredicateHolds /\ CrossCheck /\ ContainersPass
    /\ SearchOnlyRoute /\ SomeWatchedParamDiffers
    /\ Len(rule.watchSearchParams.names) = 2 /\ HasContainers
    /\ result = TRUE

\* C4: with a list of watched names, a route with the same pathname whose search
\* strings differ only in parameters outside the list never matches.
C4_UnwatchedChangeNeverMatches ==
    (Called /\ WatchListRule /\ SearchOnlyRoute /\ \A name \in Watched : ParamUntouched(name))
        => result = FALSE

\* reached: only an unwatched parameter changed, and nothing else stands in the
\* way of a match
C4_Witness ==
    /\ Called /\ WatchListRule /\ SearchOnlyRoute
    /\ Watched # {} /\ \A name \in Watched : ParamUntouched(name)
    /\ PredicateHolds /\ CrossCheck /\ ContainersPass /\ HasContainers
    /\ result = FALSE

\* C5: with watchSearchParams true, predicate true and containers passing, every
\* route with the same pathname and different search strings matches, provided
\* each URL satisfies one of the two patterns.
C5_WatchAllMatchesSearchChange ==
    (Called /\ WatchAllRule /\ PredicateHolds /\ ContainersPass /\ SearchOnlyRoute /\ CrossCheck)
        => result = TRUE

\* reached: the route matches although the from URL fails the from pattern
C5_Witness ==
    /\ Called /\ WatchAllRule /\ PredicateHolds /\ ContainersPass /\ SearchOnlyRoute
    /\ CrossCheck /\ ~FromPatternOnFrom /\ HasContainers
    /\ result = TRUE

C7_SearchRuleMatchesQueryChange ==
    ( /\ Called
      /\ rule.from = <<"/", "search">> /\ rule.to = <<"/", "search">>
      /\ WatchListRule /\ "q" \in Watched
      /\ FromLocation.pathname = <<"/", "search">> /\ ToLocation.pathname = <<"/", "search">>
      /\ ParamDiffers("q")
      /\ PredicateHolds /\ HasContainers /\ ContainersPass )
        => result = TRUE

\* C8: a route that is no change of the search string alone matches only if the
\* from pattern matches the from URL and the to pattern the to URL, and the
\* result is that of traditional matching whatever watchSearchParams is.
C8_PathChangeIsDirectional ==
    (Called /\ ~SearchOnlyRoute) => (result = TraditionalMatch)

\* reached: a route that would match with from and to swapped is rejected by a
\* rule that watches search parameters
C8_Witness ==
    /\ Called /\ ~SamePathname /\ ~WatchUnsetRule
    /\ FromPatternOnTo /\ ToPatternOnFrom /\ ~(FromPatternOnFrom /\ ToPatternOnTo)
    /\ PredicateHolds /\ ContainersPass /\ HasContainers
    /\ result = FALSE

\* C9: when the predicate returns false the call returns false; the rejection
\* is for that call only: once a call for a route has matched, every later call
\* for that route in which the predicate returns true matches again.
C9_PredicateRejectsThisCallOnly ==
    Called => /\ (~PredicateHolds => result = FALSE)
              /\ (PredicateHolds /\ hist # "none" => result = TRUE)

\* reached: matched, then rejected by the predicate, then matched again
C9_Witness ==
    Called /\ hist = "matched, then rejected" /\ PredicateHolds /\ result = TRUE

\* C10: one container without an element in the document, or with an element
\* outside swup's default containers, makes the call return false.
C10_AllOrNothingContainers ==
    (Called /\ \E i \in 1..Len(rule.containers) : doc[rule.containers[i]] # "inside")
        => result = FALSE

\* reached: the first container is fine, the second is outside, predicate and
\* route would let the rule match
C10_Witness ==
    /\ Called /\ Len(rule.containers) = 2
    /\ doc[rule.containers[1]] = "inside" /\ doc[rule.containers[2]] = "outside"
    /\ PredicateHolds /\ ~SearchOnlyRoute /\ FromPatternOnFrom /\ ToPatternOnTo
    /\ result = FALSE

(***************************************************************************)
(* A rule from its construction on, with a logger and without one          *)
(***************************************************************************)
\* container lists: not an array, a bad and a good selector, a repeated selector
LoggedContainers ==
    { NotAnArray,
      Array(<< <<".", "a">>, SelA >>),
      Array(<< SelA, <<"#", "b", " ">>, SelA >>) }

LoggedOptions ==
    [from : Paths, to : Paths, containers : LoggedContainers,
     if : IfOptions, watchSearchParams : { WatchUnset, WatchAll }, logger : BOOLEAN,
     name : NameOptions, scroll : ScrollOptions, focus : FocusOptions]

\* no rule yet: the constructor is about to be called; some document is loaded
InitLogger ==
    /\ pc = "new"
    /\ opts \in LoggedOptions
    /\ rule = NoRule
    /\ diag = <<>>
    /\ doc \in Documents
    /\ route = NoRoute
    /\ visit = "v1"
    /\ result = FALSE
    /\ hist = "none"
    /\ rules = <<>>
    /\ resolved = NoMatch

NextLogger ==
    \/ Construct
    \/ \E d \in Documents : SetDocument(d)
    \/ \E rt \in Routes, v \in Visits : Matches(rt, v)
    \/ Return

SpecLogger == InitLogger /\ [][NextLogger]_vars

(***************************************************************************)
(* Routes whose URLs have several search parameters                        *)
(***************************************************************************)
QueryOptions ==
    [from : Paths, to : Paths, containers : { Array(<<SelA>>) },
     if : { "undefined" }, watchSearchParams : WatchOptions, logger : LoggerOptions,
     name : NameOptions, scroll : ScrollOptions, focus : FocusOptions]

\* the documents in which only the rule's container varies
QueryDocuments == { d \in Documents : d[SelB] = "inside" }

\* a rule has been constructed; some document is loaded
InitQuery ==
    \E options \in QueryOptions :
        /\ pc = "idle"
        /\ rule = ParsedRule(options).rule
        /\ diag = ParsedRule(options).diag
        /\ doc \in QueryDocuments
        /\ route = NoRoute
        /\ visit = "v1"
        /\ result = FALSE
        /\ hist = "none"
        /\ opts = NoOptions
        /\ rules = <<>>
        /\ resolved = NoMatch

NextQuery ==
    \/ \E rt \in QueryRoutes : Matches(rt, "v1")
    \/ Return

SpecQuery == InitQuery /\ [][NextQuery]_vars

(***************************************************************************)
(* Rule set: the rules in declared order and their resolution              *)
(***************************************************************************)
\* the FragmentVisit made of a rule
descriptor(r) ==
    [type |-> "FragmentVisit", name |-> r.name, containers |-> r.containers,
     scroll |-> r.scroll, focus |-> r.focus]

\* resolve(route, visit) from rule i on: [descriptor, diag], the rules asked
\* in order until one matches
RECURSIVE resolve(_, _, _, _, _)
resolve(rs, rt, v, d, i) ==
    IF i > Len(rs) THEN [descriptor |-> NoMatch, diag |-> <<>>]
    ELSE LET m == matches(rs[i], rt, v, d)
         IN  IF m.result
             THEN [descriptor |-> descriptor(rs[i]), diag |-> m.diag]
             ELSE LET rest == resolve(rs, rt, v, d, i + 1)
                  IN  [descriptor |-> rest.descriptor, diag |-> m.diag \o rest.diag]

\* the options of the first and of the second rule of a set: they differ in
\* name, scroll and focus, and may differ in patterns, containers and watching
FirstOptions ==
    [from : Paths, to : Paths, containers : { Array(<<SelA>>) },
     if : { "undefined" }, watchSearchParams : { WatchUnset, WatchAll }, logger : LoggerOptions,
     name : { <<"A", " ", "b">> }, scroll : { "undefined" }, focus : { "undefined" }]
SecondOptions ==
    [from : Paths, to : Paths, containers : { Array(<<SelA>>), Array(<<SelB>>) },
     if : { "undefined" }, watchSearchParams : { WatchUnset, WatchAll }, logger : LoggerOptions,
     name : { <<"B">> }, scroll : { "#top" }, focus : { "true" }]

RuleSets ==
    { <<ParsedRule(o1).rule, ParsedRule(o2).rule>> : o1 \in FirstOptions, o2 \in SecondOptions }

\* a rule set has been constructed; some document is loaded
InitResolve ==
    /\ pc = "idle"
    /\ rules \in RuleSets
    /\ resolved = NoMatch
    /\ doc \in Documents
    /\ route = NoRoute
    /\ visit = "v1"
    /\ diag = <<>>
    /\ rule = NoRule
    /\ result = FALSE
    /\ hist = "none"
    /\ opts = NoOptions

\* resolve(rt, v) over the rule set
Resolve(rt, v) ==
    /\ pc = "idle"
    /\ pc' = "returned"
    /\ route' = rt
    /\ visit' = v
    /\ LET found == resolve(rules, rt, v, doc, 1)
       IN  resolved' = found.descriptor /\ diag' = found.diag
    /\ UNCHANGED <<rule, doc, result, hist, opts, rules>>

\* the caller is done with this resolution
ResolveReturn ==
    /\ pc = "returned"
    /\ pc' = "idle"
    /\ route' = NoRoute
    /\ visit' = "v1"
    /\ resolved' = NoMatch
    /\ diag' = <<>>
    /\ UNCHANGED <<rule, doc, result, hist, opts, rules>>

NextResolve ==
    \/ \E d \in Documents : SetDocument(d)
    \/ \E rt \in Routes : Resolve(rt, "v1")
    \/ ResolveReturn

SpecResolve == InitResolve /\ [][NextResolve]_vars

(***************************************************************************)
(* Properties of construction                                              *)
(***************************************************************************)
Constructed == pc # "new"

\* the selectors given, trimmed
GivenTrimmed == [i \in 1..Len(opts.containers.items) |-> Trim(opts.containers.items[i])]

IsId(selector) == selector # <<>> /\ selector[1] = "#"
IsNested(selector) == \E i \in 1..Len(selector) : selector[i] \in { " ", ">" }

\* the position at which a selector is first given
FirstGiven(selector) ==
    CHOOSE i \in 1..Len(GivenTrimmed) :
        GivenTrimmed[i] = selector /\ \A j \in 1..(i-1) : GivenTrimmed[j] # selector

GivenValid == { GivenTrimmed[i] : i \in { j \in 1..Len(GivenTrimmed) :
                                             IsId(GivenTrimmed[j]) /\ ~IsNested(GivenTrimmed[j]) } }
GivenInvalid == { GivenTrimmed[i] : i \in 1..Len(GivenTrimmed) } \ GivenValid

\* the selectors of the example: '.a', '#b', '#c #d', '#b'
ExampleContainers ==
    Array(<< <<".", "a">>, <<"#", "b">>, <<"#", "c", " ", "#", "d">>, <<"#", "b">> >>)

ConfigurationError ==
    \/ ~opts.containers.isArray
    \/ opts.containers.items = <<>>
    \/ GivenInvalid # {}

RuleMatches(i) ==
    LET r == rules[i]
        fromUrl == FromLocation.url
        toUrl == ToLocation.url
    IN  /\ IF SearchOnlyRoute
           THEN /\ r.watchSearchParams.type = "true"
                /\ Matchers[r.from][fromUrl] \/ Matchers[r.to][fromUrl]
                /\ Matchers[r.from][toUrl] \/ Matchers[r.to][toUrl]
           ELSE Matchers[r.from][fromUrl] /\ Matchers[r.to][toUrl]
        /\ \A k \in 1..Len(r.containers) : doc[r.containers[k]] = "inside"

MatchingRules == { i \in 1..Len(rules) : RuleMatches(i) }

\* C13: resolution returns the name, containers, scroll and focus of the
\* first rule, in declared order, that accepts the route, and the no-match
\* value when no rule does.
C13_FirstMatchingRule ==
    Called =>
        IF MatchingRules = {} THEN resolved = NoMatch
        ELSE LET first == CHOOSE i \in MatchingRules : \A j \in MatchingRules : i <= j
             IN  /\ resolved.type = "FragmentVisit"
                 /\ resolved.containers = rules[first].containers
                 /\ resolved.name = rules[first].name
                 /\ resolved.scroll = rules[first].scroll
                 /\ resolved.focus = rules[first].focus

\* both rules accept the route and have different containers: the first is returned
C13_Witness ==
    /\ Called
    /\ MatchingRules = { 1, 2 }
    /\ rules[1].containers # rules[2].containers
    /\ resolved = descriptor(rules[1])

(***************************************************************************)
(* Properties of the logger                                                *)
(***************************************************************************)
\* the same options, and the same rule, with the logger taken away or supplied
OtherOptions == [opts EXCEPT !.logger = ~@]
OtherRule == [rule EXCEPT !.logger = ~@]

\* C14: the containers of a constructed rule are those the constructor
\* yields for the same options with the logger the other way, and the
\* boolean matches() returned is the one it returns for the same route, visit
\* and document when the rule's logger is the other way.
C14_LoggerIndependent ==
    /\ Constructed => rule.containers = ParsedRule(OtherOptions).rule.containers
    /\ Called => result = matches(OtherRule, route, visit, doc).result

\* a rule without a logger, built from a list with a bad selector, has matched
C14_Witness ==
    /\ Called
    /\ ~opts.logger /\ ~rule.logger
    /\ GivenInvalid # {}
    /\ result
    /\ diag = <<>>

WatchedChanged == WatchAllRule \/ (WatchListRule /\ SomeWatchedParamDiffers)

\* C16: for a route with the same pathname and different search strings,
\* with watching enabled and a watched parameter differing (predicate true,
\* containers passing), the call matches exactly when each URL satisfies the
\* from pattern or the to pattern.
C16_CrossCheckDecidesSearchBranch ==
    (Called /\ SearchOnlyRoute /\ WatchedChanged /\ PredicateHolds /\ ContainersPass)
        => (result = CrossCheck)

\* reached: a watched list, and a match although the to URL fails the to pattern
C16_Witness ==
    /\ Called /\ SearchOnlyRoute /\ WatchListRule /\ SomeWatchedParamDiffers
    /\ HasContainers /\ ~ToPatternOnTo
    /\ result = TRUE

(***************************************************************************)
(* Properties of repeated and reordered search parameters                  *)
(***************************************************************************)
\* some occurrence of a watched parameter differs, or it is present on one side only
SomeWatchedOccurrenceDiffers == \E name \in Watched : ~ParamUntouched(name)

\* C17 (as claimed): with a list of watched names, a route with the same
\* pathname and different search strings in which any occurrence of a watched
\* parameter differs, or a watched parameter is absent on one side and present
\* (even empty) on the other, matches, when the predicate is true, each URL
\* satisfies one of the patterns and the containers pass.
C17_EveryOccurrenceCounts ==
    (/\ Called /\ WatchListRule /\ SearchOnlyRoute
     /\ PredicateHolds /\ CrossCheck /\ ContainersPass /\ HasContainers
     /\ SomeWatchedOccurrenceDiffers)
        => result = TRUE

(***************************************************************************)
(* Properties of the order of the gates                                    *)
(***************************************************************************)
\* the route conditions: the cross-check and a watched change for a change
\* of the search string only, the patterns by direction otherwise
RoutePasses ==
    IF SearchOnlyRoute THEN CrossCheck /\ WatchedChanged
    ELSE FromPatternOnFrom /\ ToPatternOnTo

IsError(entry) == entry.level = "error"

\* what the logger was handed about selectors by the last call
SelectorErrors == SelectSeq(diag, IsError)

\* the containers without an element inside swup's default containers
FailingContainers == { i \in 1..Len(rule.containers) : doc[rule.containers[i]] # "inside" }

\* C18: a call the predicate rejects hands the logger the predicate's note
\* alone, a call the route conditions reject hands it nothing, and neither
\* reports a selector; a call that passes both reports no selector when every
\* container passes, and otherwise returns false with exactly one error, for
\* the first failing container in their order: "doesn't exist" when the
\* document has no such element, "outside of swup's default containers"
\* otherwise.
C18_GatesInOrder ==
    Called =>
        /\ ~PredicateHolds =>
               /\ result = FALSE
               /\ diag = << Diag("log", "ignoring due to rule.if", <<>>) >>
        /\ (PredicateHolds /\ ~RoutePasses) => (result = FALSE /\ diag = <<>>)
        /\ (PredicateHolds /\ RoutePasses) =>
               IF FailingContainers = {}
               THEN result = TRUE /\ SelectorErrors = <<>>
               ELSE LET first == CHOOSE i \in FailingContainers :
                                     \A j \in FailingContainers : i <= j
                        selector == rule.containers[first]
                    IN  /\ result = FALSE
                        /\ SelectorErrors =
                               << Diag("error",
                                       IF doc[selector] = "missing" THEN "doesn't exist"
                                       ELSE "outside of swup's default containers",
                                       selector) >>

\* reached: two containers fail, the first has no element; one error is reported
C18_Witness ==
    /\ Called /\ PredicateHolds /\ RoutePasses
    /\ Len(rule.containers) = 2
    /\ doc[rule.containers[1]] = "missing" /\ doc[rule.containers[2]] = "outside"
    /\ Len(SelectorErrors) = 1
    /\ SelectorErrors[1].msg = "doesn't exist"
    /\ result = FALSE

\* how often a <<name, value>> pair occurs among the parameters
Occurrences(searchParams, pair) ==
    Cardinality({ i \in 1..Len(searchParams) : searchParams[i] = pair })

\* from and to hold the same parameters, each as often, in whatever order
SameParams ==
    LET f == FromLocation.searchParams
        t == ToLocation.searchParams
    IN  /\ Len(f) = Len(t)
        /\ \A i \in 1..Len(f) : Occurrences(f, f[i]) = Occurrences(t, f[i])

\* C19 (as claimed): a route between two URLs with the same pathname and the
\* same parameters, in whatever order, is decided as the route from the from
\* URL to itself is: by the predicate, the two patterns on that URL and the
\* containers, whatever watchSearchParams is. Stated for the rules that have
\* containers.
C19_ReorderedIsIdentical ==
    (Called /\ SamePathname /\ SameParams /\ HasContainers)
        => (result = (PredicateHolds /\ FromPatternOnFrom /\ ToPatternOnFrom /\ ContainersPass))

\* C19 (amended): a route between two URLs with the same pathname and the
\* same parameters in another order has different search strings and is
\* decided as a change of the search string: it matches exactly when the
\* predicate is true, each URL satisfies one of the patterns, watchSearchParams
\* is true or lists a parameter whose first value differs, and the containers
\* pass.
C19_ReorderedIsSearchChange ==
    (Called /\ SamePathname /\ SameParams /\ DifferentSearch)
        => (result = (PredicateHolds /\ CrossCheck /\ WatchedChanged /\ ContainersPass))

\* reached: reordered parameters, watchSearchParams unset: rejected although
\* the patterns, the predicate and the containers accept both URLs
C19_Witness ==
    /\ Called /\ SamePathname /\ SameParams /\ DifferentSearch
    /\ WatchUnsetRule
    /\ PredicateHolds /\ FromPatternOnFrom /\ ToPatternOnTo /\ ContainersPass /\ HasContainers
    /\ result = FALSE

====
